---- MODULE Spec2Model ----
(***************************************************************************)
(* Model of src/app.py: the InstaLLM class (model registry, handle         *)
(* dictionary, per-model conversation history) and the three handlers the  *)
(* UI binds: the model-list refresh, load_model and generate_response.     *)
(*                                                                         *)
(* Text is a sequence of tokens.  A file name is the text <<stem, ext>>,   *)
(* a message is the text its f-string builds, whitespace is the tokens     *)
(* " " and "\n", and the stop delimiter is the token "</|assistant|>".     *)
(***************************************************************************)
EXTENDS Integers, Sequences, FiniteSets, TLC

VARIABLES disk, available_models, bitnet_models, models,
          conversation_history, last

vars == <<disk, available_models, bitnet_models, models,
          conversation_history, last>>

(***************************************************************************)
(* Bounds                                                                  *)
(***************************************************************************)
MaxTurns == 4

(***************************************************************************)
(* Files and inputs                                                        *)
(***************************************************************************)
StdFile == <<"chat", ".gguf">>
BitFile == <<"BitNet", ".gguf">>
TxtFile == <<"notes", ".txt">>

FileUniverse == {StdFile, BitFile, TxtFile}

NoName == <<>>

NameInputs == FileUniverse \cup {NoName}

Prompts == {<<"hi">>}

\* Raw texts the inference library can return in response['choices'][0]['text'].
LlamaTexts == {<<" ", "ok", "</|assistant|>", "\n">>, <<>>}

\* Streams a finished subprocess can have captured.
StdoutTexts == {<<>>, <<"\n">>, <<" ", "out", "\n">>}
StderrTexts == {<<>>, <<"oops">>}
ReturnCodes == {0, 1}

(***************************************************************************)
(* Text helpers                                                            *)
(***************************************************************************)
IsSpace(t) == t \in {" ", "\n"}

RECURSIVE LStrip(_)
LStrip(s) == IF s # <<>> /\ IsSpace(Head(s)) THEN LStrip(Tail(s)) ELSE s

RECURSIVE RStrip(_)
RStrip(s) ==
  IF s # <<>> /\ IsSpace(s[Len(s)]) THEN RStrip(SubSeq(s, 1, Len(s) - 1)) ELSE s

Strip(s) == RStrip(LStrip(s))

RemoveToken(s, tok) == SelectSeq(s, LAMBDA t : t # tok)

Contains(s, sub) ==
  \E i \in 1..(Len(s) + 1) :
     /\ i + Len(sub) - 1 <= Len(s)
     /\ SubSeq(s, i, i + Len(sub) - 1) = sub

IsPrefix(s, t) == Len(s) <= Len(t) /\ SubSeq(t, 1, Len(s)) = s

Lower(t) == IF t = "BitNet" THEN "bitnet" ELSE t

EndsWithGguf(file) == file # <<>> /\ file[Len(file)] = ".gguf"

HasBitnet(file) == \E i \in 1..Len(file) : Lower(file[i]) = "bitnet"

JoinPath(file) == <<"models", "/">> \o file

PathExists(path) == \E f \in disk : JoinPath(f) = path

Put(f, k, v) == [x \in DOMAIN f \cup {k} |-> IF x = k THEN v ELSE f[x]]

Orders(S) ==
  {s \in [1..Cardinality(S) -> S] : \A i, j \in 1..Cardinality(S) : s[i] = s[j] => i = j}

(***************************************************************************)
(* Messages                                                                *)
(***************************************************************************)
SelectFirstMsg == <<"Please select a model first!">>
LoadFirstMsg == <<"Please load the model first!">>
NotFoundMsg(n) == <<"Model ">> \o n \o <<" not found!">>
BitnetFileMissingMsg(p) == <<"Error: BitNet model file not found at ">> \o p
ModelFileMissingMsg(p) == <<"Error: Model file not found at ">> \o p
BitnetLoadedMsg(n) == <<"BitNet model ">> \o n \o <<" loaded successfully!">>
ModelLoadedMsg(n) == <<"Model ">> \o n \o <<" loaded successfully!">>
ScriptMissingMsg ==
  <<"Error: run_inference.py not found. Please ensure it's in the same directory as app.py">>
EmptyResponseMsg == <<"Error: BitNet returned empty response">>

(***************************************************************************)
(* What a handler call hands back: the statement it left through (via),    *)
(* the text returned, whether an exception left the handler instead, the   *)
(* backend it invoked, and the finished subprocess, if there was one.      *)
(***************************************************************************)
Returned(op, n, via, text, backend, proc) ==
  [op |-> op, name |-> n, via |-> via, ret |-> text, raised |-> FALSE,
   backend |-> backend, proc |-> proc]

Thrown(op, n, via, backend) ==
  [op |-> op, name |-> n, via |-> via, ret |-> <<>>, raised |-> TRUE,
   backend |-> backend, proc |-> <<>>]

(***************************************************************************)
(* State                                                                   *)
(***************************************************************************)
HistoryOf(n) == IF n \in DOMAIN conversation_history THEN conversation_history[n] ELSE <<>>

Turn(role, content) == [role |-> role, content |-> content]

InList(n, list) == \E i \in 1..Len(list) : list[i] = n

\* The registry a directory listing in the given order produces.
ScanAvailable(order) == SelectSeq(order, LAMBDA f : EndsWithGguf(f) /\ ~HasBitnet(f))

ScanBitnetKeys(order) == SelectSeq(order, LAMBDA f : EndsWithGguf(f) /\ HasBitnet(f))

ScanBitnet(order) ==
  [f \in {order[i] : i \in {j \in 1..Len(order) : EndsWithGguf(order[j]) /\ HasBitnet(order[j])}}
     |-> JoinPath(f)]

Init ==
  /\ disk \in SUBSET FileUniverse
  /\ \E order \in Orders(disk) :
       /\ available_models = ScanAvailable(order)
       /\ bitnet_models = ScanBitnet(order)
  /\ models = <<>>
  /\ conversation_history = <<>>
  /\ last = Returned("init", NoName, "init", <<>>, "none", <<>>)

(***************************************************************************)
(* The models directory changes under the program                          *)
(***************************************************************************)
FileAdded(f) ==
  /\ f \notin disk
  /\ disk' = disk \cup {f}
  /\ UNCHANGED <<available_models, bitnet_models, models, conversation_history, last>>

FileRemoved(f) ==
  /\ f \in disk
  /\ disk' = disk \ {f}
  /\ UNCHANGED <<available_models, bitnet_models, models, conversation_history, last>>

(***************************************************************************)
(* update_model_list -> _load_available_models                             *)
(***************************************************************************)
\* The scan assigns available_models and bitnet_models and nothing else.
HandlesAfterScanDropUnlisted(order) ==
  [n \in {m \in DOMAIN models : InList(m, order) /\ EndsWithGguf(m)} |-> models[n]]

HandlesAfterScan(order) == models

LoadAvailableModels ==
  \E order \in Orders(disk) :
    /\ available_models' = ScanAvailable(order)
    /\ bitnet_models' = ScanBitnet(order)
    /\ models' = HandlesAfterScan(order)
    /\ last' = Returned("scan", NoName, "listed",
                        ScanAvailable(order) \o ScanBitnetKeys(order), "none", <<>>)
    /\ UNCHANGED <<disk, conversation_history>>

(***************************************************************************)
(* load_model                                                              *)
(***************************************************************************)
\* Llama(model_path=..., n_ctx=2048, n_threads=4): builds the object or throws.
LlamaConstruct(path) == {"built", "throws"}

BitnetHandle(path) == [type |-> "bitnet", path |-> path]

LlamaHandle(path) == [type |-> "llama", model |-> path]

\* self.conversation_history[model_name] = []
InitHistoryKeepExisting(n) ==
  IF n \in DOMAIN conversation_history
  THEN conversation_history
  ELSE Put(conversation_history, n, <<>>)

InitHistory(n) == Put(conversation_history, n, <<>>)

\* try: ... except Exception as e: return error_msg
LoadTry(n, r) ==
  IF r.raised
  THEN Returned("load", n, "construct_threw",
                <<"Error loading model ">> \o n \o <<": ", "<exception>">>, r.backend, <<>>)
  ELSE r

\* The handle dictionary when Llama(...) throws: the assignment never happens.
HandlesAfterThrowDropped(n) == [m \in DOMAIN models \ {n} |-> models[m]]

HandlesAfterThrow(n) == models

LoadBitnet(model_name) ==
  LET model_path == bitnet_models[model_name] IN
  IF ~PathExists(model_path)
  THEN /\ last' = LoadTry(model_name,
                    Returned("load", model_name, "file_missing",
                             BitnetFileMissingMsg(model_path), "none", <<>>))
       /\ UNCHANGED <<models, conversation_history>>
  ELSE /\ models' = Put(models, model_name, BitnetHandle(model_path))
       /\ last' = LoadTry(model_name,
                    Returned("load", model_name, "loaded",
                             BitnetLoadedMsg(model_name), "none", <<>>))
       /\ UNCHANGED conversation_history

LoadLlama(model_name) ==
  LET model_path == JoinPath(model_name) IN
  IF ~PathExists(model_path)
  THEN /\ last' = LoadTry(model_name,
                    Returned("load", model_name, "file_missing",
                             ModelFileMissingMsg(model_path), "none", <<>>))
       /\ UNCHANGED <<models, conversation_history>>
  ELSE \E built \in LlamaConstruct(model_path) :
         IF built = "throws"
         THEN /\ last' = LoadTry(model_name, Thrown("load", model_name, "construct_threw", "llama"))
              /\ models' = HandlesAfterThrow(model_name)
              /\ UNCHANGED conversation_history
         ELSE /\ models' = Put(models, model_name, LlamaHandle(model_path))
              /\ conversation_history' = InitHistory(model_name)
              /\ last' = LoadTry(model_name,
                           Returned("load", model_name, "loaded",
                                    ModelLoadedMsg(model_name), "llama", <<>>))

LoadModel(model_name) ==
  /\ UNCHANGED <<disk, available_models, bitnet_models>>
  /\ IF model_name = NoName
     THEN /\ last' = Returned("load", model_name, "no_selection", SelectFirstMsg, "none", <<>>)
          /\ UNCHANGED <<models, conversation_history>>
     ELSE IF ~InList(model_name, available_models) /\ model_name \notin DOMAIN bitnet_models
     THEN /\ last' = Returned("load", model_name, "not_found",
                              NotFoundMsg(model_name), "none", <<>>)
          /\ UNCHANGED <<models, conversation_history>>
     ELSE IF model_name \in DOMAIN bitnet_models
     THEN LoadBitnet(model_name)
     ELSE LoadLlama(model_name)

(***************************************************************************)
(* generate_response                                                       *)
(***************************************************************************)
SystemPrompt == <<"You are InstaLLM, a helpful and professional AI assistant. ...">>

RECURSIVE RenderTurns(_)
RenderTurns(h) ==
  IF h = <<>> THEN <<>>
  ELSE (IF Head(h).role = "user"
        THEN <<"<|user|>", "\n">> \o Head(h).content \o <<"\n", "</|user|>", "\n">>
        ELSE <<"<|assistant|>", "\n">> \o Head(h).content \o <<"\n", "</|assistant|>", "\n">>)
       \o RenderTurns(Tail(h))

ConversationContext(h) ==
  <<"<|system|>", "\n">> \o SystemPrompt \o <<"\n", "</|system|>", "\n">>
    \o RenderTurns(h) \o <<"<|assistant|>", "\n">>

\* model_info["model"](conversation_context, ...): returns a completion or throws.
LlamaCall(context) ==
  {[raised |-> TRUE, text |-> <<>>]} \cup {[raised |-> FALSE, text |-> t] : t \in LlamaTexts}

\* subprocess.run(cmd, capture_output=True, text=True): a finished process or a throw.
SubprocessRun(path, context) ==
  {[raised |-> TRUE, returncode |-> 0, stdout |-> <<>>, stderr |-> <<>>]} \cup
  {[raised |-> FALSE, returncode |-> c, stdout |-> o, stderr |-> e] :
     c \in ReturnCodes, o \in StdoutTexts, e \in StderrTexts}

\* os.path.exists("run_inference.py")
ScriptExists == BOOLEAN

\* The rejection of a name with no handle touches no state.
HistoryAfterRejectInit(n) == Put(conversation_history, n, <<>>)

HistoryAfterReject(n) == conversation_history

\* The user turn goes in before any backend is tried.
WithUserTurnDropped(n, prompt) == HistoryOf(n)

WithUserTurn(n, prompt) == Append(HistoryOf(n), Turn("user", prompt))

WithAssistantTurnInFront(h, text) == <<Turn("assistant", text)>> \o h

WithAssistantTurn(h, text) == Append(h, Turn("assistant", text))

LlamaResponseText(raw) == Strip(RemoveToken(Strip(raw), "</|assistant|>"))

BitnetErrorMsgStdoutOnly(code, out, err) ==
  <<"BitNet inference error (code ", ToString(code), "):\n">>
    \o <<"STDOUT: ">> \o out \o <<"\n">>

BitnetErrorMsg(code, out, err) ==
  <<"BitNet inference error (code ", ToString(code), "):\n">>
    \o <<"STDOUT: ">> \o out \o <<"\n">>
    \o <<"STDERR: ">> \o err

\* inner try: ... except Exception as e: around the subprocess
BitnetTry(n, path, r) ==
  IF r.raised
  THEN Returned("generate", n, "subprocess_threw",
                <<"Error running BitNet inference: ", "<exception>", "\n">>
                  \o <<"Python path: ", "<python>", "\n">>
                  \o <<"Model path: ">> \o path,
                r.backend, <<>>)
  ELSE r

\* outer try: ... except Exception as e: of generate_response
GenerateTryNoExcept(n, r) == r

GenerateTry(n, r) ==
  IF r.raised
  THEN Returned("generate", n, "backend_threw",
                <<"Error generating response: ", "<exception>">>, r.backend, <<>>)
  ELSE r

\* The bitnet branch after the user turn: the history it leaves and its reply.
BitnetOutcome(n, h, path, script, result) ==
  IF ~script
  THEN [history |-> h,
        reply |-> Returned("generate", n, "script_missing", ScriptMissingMsg, "none", <<>>)]
  ELSE IF result.raised
  THEN [history |-> h, reply |-> Thrown("generate", n, "subprocess_threw", "subprocess")]
  ELSE IF result.returncode # 0
  THEN [history |-> h,
        reply |-> Returned("generate", n, "exit_nonzero",
                           BitnetErrorMsg(result.returncode, result.stdout, result.stderr),
                           "subprocess", <<result>>)]
  ELSE IF Strip(result.stdout) = <<>>
  THEN [history |-> h,
        reply |-> Returned("generate", n, "empty_output", EmptyResponseMsg,
                           "subprocess", <<result>>)]
  ELSE [history |-> WithAssistantTurn(h, Strip(result.stdout)),
        reply |-> Returned("generate", n, "responded", Strip(result.stdout),
                           "subprocess", <<result>>)]

\* The library branch after the user turn.
LlamaOutcome(n, h, response) ==
  IF response.raised
  THEN [history |-> h, reply |-> Thrown("generate", n, "backend_threw", "llama")]
  ELSE [history |-> WithAssistantTurn(h, LlamaResponseText(response.text)),
        reply |-> Returned("generate", n, "responded", LlamaResponseText(response.text),
                           "llama", <<>>)]

GenerateBitnet(model_name, h, context) ==
  LET path == models[model_name].path IN
  \E script \in ScriptExists :
    \E result \in SubprocessRun(path, context) :
      LET out == BitnetOutcome(model_name, h, path, script, result) IN
      /\ conversation_history' = Put(conversation_history, model_name, out.history)
      /\ last' = GenerateTry(model_name, BitnetTry(model_name, path, out.reply))

GenerateLlama(model_name, h, context) ==
  \E response \in LlamaCall(context) :
    LET out == LlamaOutcome(model_name, h, response) IN
    /\ conversation_history' = Put(conversation_history, model_name, out.history)
    /\ last' = GenerateTry(model_name, out.reply)

GenerateResponse(model_name, prompt) ==
  /\ UNCHANGED <<disk, available_models, bitnet_models, models>>
  /\ IF model_name = NoName
     THEN /\ last' = Returned("generate", model_name, "no_selection", SelectFirstMsg, "none", <<>>)
          /\ UNCHANGED conversation_history
     ELSE IF model_name \notin DOMAIN models
     THEN /\ last' = Returned("generate", model_name, "not_loaded", LoadFirstMsg, "none", <<>>)
          /\ conversation_history' = HistoryAfterReject(model_name)
     ELSE /\ Len(HistoryOf(model_name)) + 2 <= MaxTurns
          /\ LET h == WithUserTurn(model_name, prompt) IN
             IF models[model_name].type = "bitnet"
             THEN GenerateBitnet(model_name, h, ConversationContext(h))
             ELSE GenerateLlama(model_name, h, ConversationContext(h))

(***************************************************************************)
(* Specification                                                           *)
(***************************************************************************)
Next ==
  \/ \E f \in FileUniverse : FileAdded(f)
  \/ \E f \in FileUniverse : FileRemoved(f)
  \/ LoadAvailableModels
  \/ \E n \in NameInputs : LoadModel(n)
  \/ \E n \in NameInputs, p \in Prompts : GenerateResponse(n, p)

Spec == Init /\ [][Next]_vars

(***************************************************************************)
(* Properties                                                              *)
(***************************************************************************)
Registered(n) == InList(n, available_models) \/ n \in DOMAIN bitnet_models

LoadSucceeded ==
  /\ last.op = "load"
  /\ ~last.raised
  /\ last.ret \in {ModelLoadedMsg(last.name), BitnetLoadedMsg(last.name)}

\* C1: generate on a model name that has no loaded handle returns the fixed
\* "load the model first" message, invokes no backend, and leaves the handle
\* dictionary and every turn history unchanged.
C1_GenerateBeforeLoad ==
  [][\A n \in FileUniverse, p \in Prompts :
       (n \notin DOMAIN models /\ GenerateResponse(n, p)) =>
         /\ last'.ret = LoadFirstMsg
         /\ ~last'.raised
         /\ last'.backend = "none"
         /\ models' = models
         /\ conversation_history' = conversation_history]_vars

\* A rejected generate on a listed but unloaded model, while another model is
\* loaded and has turns.
C1_Witness ==
  /\ last.op = "generate"
  /\ last.name \in FileUniverse
  /\ last.name \notin DOMAIN models
  /\ Registered(last.name)
  /\ last.ret = LoadFirstMsg
  /\ \E m \in DOMAIN models : HistoryOf(m) # <<>>

\* C2: a load of a model name that already has a handle leaves that model's
\* turn history as it was and the name still has its (one) handle.
C2_ReloadKeepsHistory ==
  [][\A n \in FileUniverse :
       (n \in DOMAIN models /\ LoadModel(n)) =>
         /\ HistoryOf(n)' = HistoryOf(n)
         /\ n \in DOMAIN models']_vars

\* C3: whenever load returns its success message, the history of the loaded
\* model is empty right after the load.
C3_LoadSuccessEmptiesHistory ==
  LoadSucceeded => HistoryOf(last.name) = <<>>

\* C3 as amended: a successful load leaves the history empty when the model
\* is a standard one or had no handle before; a successful re-load of an
\* alternate-backend model leaves its turns as they were.
C3_LoadSuccessHistory ==
  [][\A n \in FileUniverse :
       (LoadModel(n) /\ LoadSucceeded') =>
         /\ models'[n].type = "llama" => HistoryOf(n)' = <<>>
         /\ n \notin DOMAIN models => HistoryOf(n)' = <<>>
         /\ (models'[n].type = "bitnet" /\ n \in DOMAIN models) =>
              HistoryOf(n)' = HistoryOf(n)]_vars

\* A standard model re-loaded successfully (its history is empty again) while
\* the alternate-backend model holds turns from earlier generate calls.
C3_Witness ==
  /\ LoadSucceeded
  /\ models[last.name].type = "llama"
  /\ HistoryOf(last.name) = <<>>
  /\ \E m \in DOMAIN models : models[m].type = "bitnet" /\ Len(HistoryOf(m)) >= 2

\* C4: after a successful load of m and exactly one generate(m, p), the
\* history of m is the user turn p followed by the assistant turn carrying
\* the returned text, whatever the backend did.
C4_OneGenerateTwoTurns ==
  [][\A n \in FileUniverse, p \in Prompts :
       (LoadSucceeded /\ last.name = n /\ GenerateResponse(n, p)) =>
         HistoryOf(n)' = <<Turn("user", p), Turn("assistant", last'.ret)>>]_vars

\* C4 as amended: after a successful load that leaves m's history empty and
\* one generate(m, p), the history is the user turn p followed by the
\* assistant turn carrying the returned text when the backend responded, and
\* the user turn p alone for every other backend outcome.
C4_OneGenerateTurns ==
  [][\A n \in FileUniverse, p \in Prompts :
       (LoadSucceeded /\ last.name = n /\ HistoryOf(n) = <<>> /\ GenerateResponse(n, p)) =>
         IF last'.via = "responded"
         THEN HistoryOf(n)' = <<Turn("user", p), Turn("assistant", last'.ret)>>
         ELSE HistoryOf(n)' = <<Turn("user", p)>>]_vars

\* The first generate after a load, answered by the backend.
C4_Witness ==
  /\ last.op = "generate"
  /\ last.via = "responded"
  /\ Len(HistoryOf(last.name)) = 2
  /\ HistoryOf(last.name)[2] = Turn("assistant", last.ret)
  /\ last.ret # <<>>

\* C5: when the subprocess of a generate on an alternate-backend handle exits
\* with code 1, the returned text contains the captured standard output and
\* the captured standard error, and the history grows by the user turn only.
C5_ExitCodeOne ==
  [][\A n \in FileUniverse, p \in Prompts :
       (/\ last'.proc # <<>>
        /\ last'.proc[1].returncode = 1
        /\ n \in DOMAIN models
        /\ models[n].type = "bitnet"
        /\ GenerateResponse(n, p)) =>
         /\ ~last'.raised
         /\ Contains(last'.ret, last'.proc[1].stdout)
         /\ Contains(last'.ret, last'.proc[1].stderr)
         /\ HistoryOf(n)' = Append(HistoryOf(n), Turn("user", p))]_vars

\* An exit with code 1 that captured text on both streams.
C5_Witness ==
  /\ last.op = "generate"
  /\ last.proc # <<>>
  /\ last.proc[1].returncode = 1
  /\ last.proc[1].stdout # <<>>
  /\ last.proc[1].stderr # <<>>
  /\ HistoryOf(last.name)[Len(HistoryOf(last.name))].role = "user"

\* C6: every step leaves each model's earlier history as a prefix of its
\* later history.
C6_AppendOnly ==
  [][\A n \in FileUniverse : IsPrefix(HistoryOf(n), HistoryOf(n)')]_vars

\* C7: a model name that has a handle has a handle after every step.
C7_NeverUnloaded ==
  [][\A n \in FileUniverse : n \in DOMAIN models => n \in DOMAIN models']_vars

\* A re-load of a loaded model that failed, with the handle still there.
C7_Witness ==
  /\ last.op = "load"
  /\ last.via \in {"construct_threw", "file_missing"}
  /\ last.name \in DOMAIN models

FailureModes ==
  {"not_found", "file_missing", "construct_threw", "not_loaded", "script_missing",
   "subprocess_threw", "exit_nonzero", "empty_output", "backend_threw"}

\* C8: every load and generate call ends by returning text, a non-empty
\* message in each failure mode; no exception leaves the handler.
C8_NothingRaised ==
  last.op \in {"load", "generate"} =>
    /\ ~last.raised
    /\ last.via \in FailureModes => last.ret # <<>>

\* A backend that threw, returned to the caller as text.
C8_Witness ==
  /\ last.op = "generate"
  /\ ~last.raised
  /\ last.via \in {"backend_threw", "subprocess_threw"}
  /\ last.ret # <<>>

\* C9: a scan leaves the handle dictionary and every history unchanged, and
\* generate on a loaded name whose file is gone and which is no longer listed
\* is carried out, not rejected as not loaded.
C9_ScanKeepsHandles ==
  [][/\ LoadAvailableModels => (models' = models /\ conversation_history' = conversation_history)
     /\ \A n \in FileUniverse, p \in Prompts :
          (/\ n \in DOMAIN models
           /\ n \notin disk
           /\ ~Registered(n)
           /\ GenerateResponse(n, p)) =>
            /\ last'.via \notin {"not_loaded", "no_selection"}
            /\ HistoryOf(n)' # HistoryOf(n)]_vars

\* A generate answered on a handle whose file was removed and delisted.
C9_Witness ==
  /\ last.op = "generate"
  /\ last.via = "responded"
  /\ last.name \in DOMAIN models
  /\ last.name \notin disk
  /\ ~Registered(last.name)

\* C10: in every history each assistant turn comes right after a user turn,
\* and only names with a loaded handle have a history.
C10_TurnsAlternate ==
  \A n \in DOMAIN conversation_history :
    /\ n \in DOMAIN models
    /\ \A i \in 1..Len(conversation_history[n]) :
         conversation_history[n][i].role = "assistant" =>
           (i > 1 /\ conversation_history[n][i - 1].role = "user")

\* A history with two answered exchanges.
C10_Witness ==
  \E n \in DOMAIN conversation_history :
    /\ Len(conversation_history[n]) = 4
    /\ conversation_history[n][2].role = "assistant"
    /\ conversation_history[n][4].role = "assistant"

====
